---- MODULE Spec2Model ----
(***************************************************************************)
(* A model of the YouTube analytics framework: the SQLite store written by *)
(* SimpleDataCollector (test_data_collector.py), the analytics engine      *)
(* YouTubeAnalyticsEngine (analytics_engine.py) that reads it, and the     *)
(* analysis section of MCPDashboard.run_dashboard (dashboard_with_mcp.py). *)
(*                                                                         *)
(* Numbers.  Python floats are modelled by exact rationals [num, den],     *)
(* kept in lowest terms; den = 0 marks the two non-finite values the code  *)
(* can produce (NaN and +inf).  Series.std() is represented by its square  *)
(* (the variance), so that no square root is needed: cv < 50 is decided as *)
(* cv^2 < 50^2, which is the same comparison for cv >= 0 and is false for  *)
(* NaN on both sides.                                                      *)
(*                                                                         *)
(* Rows.  Timestamps (published_at, collected_at, created_at, updated_at)  *)
(* are not read by any modelled computation and are left out of the rows;  *)
(* a video's title is identified with its video_id and a channel's name    *)
(* with its channel_id.                                                    *)
(***************************************************************************)
EXTENDS Integers, Sequences, FiniteSets

\* ------------------------------------------------------------------ bounds
\* Longest video table the store holds when the engine is started.
MaxRows == 3
\* Video identifiers the collector is given: 1..NumVideoIds.
NumVideoIds == 2
\* Channel identifiers: 1..NumChannels.
NumChannels == 2

ChannelIds == 1..NumChannels
VideoIds == 1..NumVideoIds

\* Python's None as a channel_id argument (`if channel_id:` is false for it).
NoChannel == 0
ChannelArgs == ChannelIds \cup {NoChannel}

\* ------------------------------------------------------- python values
NoneValue == [type |-> "NoneType"]
\* The dict literal {}.
EmptyDict == [type |-> "dict", len |-> 0]
\* The tuple (analysis, videos_df).
Tuple(a, d) == [type |-> "tuple", analysis |-> a, videos_df |-> d]
\* pd.DataFrame(): a table is the sequence of its rows.
EmptyDataFrame == <<>>
\* A table as a returned value.
DataFrame(d) == [type |-> "DataFrame", rows |-> d]

\* ------------------------------------------------------------ floats
RECURSIVE GCD(_, _)
GCD(a, b) == IF b = 0 THEN a ELSE GCD(b, a % b)

Abs(n) == IF n < 0 THEN -n ELSE n

\* n/d in lowest terms, d > 0.
Rat(n, d) ==
    LET g == GCD(Abs(n), d)
    IN  [num |-> n \div g, den |-> d \div g]

NaN == [num |-> 0, den |-> 0]
Inf == [num |-> 1, den |-> 0]
IsNaN(a) == a.den = 0 /\ a.num = 0
IsFinite(a) == a.den # 0

FloatAdd(a, b) ==
    IF IsNaN(a) \/ IsNaN(b) THEN NaN
    ELSE IF ~IsFinite(a) \/ ~IsFinite(b) THEN Inf
    ELSE Rat(a.num * b.den + b.num * a.den, a.den * b.den)

FloatMul(a, b) ==
    IF IsNaN(a) \/ IsNaN(b) THEN NaN
    ELSE IF ~IsFinite(a) \/ ~IsFinite(b)
         THEN (IF a.num = 0 \/ b.num = 0 THEN NaN ELSE Inf)
    ELSE Rat(a.num * b.num, a.den * b.den)

\* numpy float division of non-negative values: 0/0 and every operation on
\* NaN give NaN, x/0 gives inf; no exception is raised.
FloatDiv(a, b) ==
    IF IsNaN(a) \/ IsNaN(b) THEN NaN
    ELSE IF ~IsFinite(a) THEN (IF IsFinite(b) THEN Inf ELSE NaN)
    ELSE IF ~IsFinite(b) THEN Rat(0, 1)
    ELSE IF b.num = 0 THEN (IF a.num = 0 THEN NaN ELSE Inf)
    ELSE Rat(a.num * b.den, a.den * b.num)

\* a < b; every comparison with NaN is false.
FloatLT(a, b) ==
    /\ ~IsNaN(a)
    /\ ~IsNaN(b)
    /\ IsFinite(a)
    /\ (IsFinite(b) => a.num * b.den < b.num * a.den)

FloatGT(a, b) == FloatLT(b, a)
FloatLE(a, b) == ~IsNaN(a) /\ ~IsNaN(b) /\ ~FloatLT(b, a)
FloatGE(a, b) == FloatLE(b, a)

\* ------------------------------------------------------- the store
VARIABLES
    channels,          \* table channels: the set of its rows
    video_analytics,   \* table video_analytics: its rows in rowid order
    results_dir,       \* files in analytics_results/
    call,              \* the last call: operation and arguments
    returned,          \* what the last call returned to its caller
    raised,            \* whether an exception left the last call
    stdout,            \* what the last call printed
    report,            \* <<>>, or <<r>>: the report the last call printed
    st,                \* what the dashboard rendered in the last call
    conn,              \* connections the last call opened and left open
    pass               \* the run_complete_analysis in progress, query by query

vars == <<channels, video_analytics, results_dir, call, returned, raised, stdout, report, st, conn, pass>>
store == <<channels, video_analytics>>

\* ------------------------------------------------- collected records
\* The rate without the views > 0 guard: the division is always made.
EngagementRate_unguarded(views, likes, comments) ==
    FloatMul(FloatDiv(Rat(likes + comments, 1), Rat(views, 1)), Rat(100, 1))

\* store_video_data: engagement_rate = ((likes + comments) / views * 100)
\* if views > 0 else 0.
EngagementRate(views, likes, comments) ==
    IF views > 0 THEN Rat((likes + comments) * 100, views) ELSE Rat(0, 1)

\* The statistics (viewCount, likeCount, commentCount) the platform API
\* reports for a video: engagement rates 0, 1.0, 4.0 and 2.0.
VideoStats ==
    { [views |-> 0,   likes |-> 0, comments |-> 0],
      [views |-> 100, likes |-> 1, comments |-> 0],
      [views |-> 200, likes |-> 6, comments |-> 2],
      [views |-> 300, likes |-> 3, comments |-> 3] }

\* The channel statistics the platform API reports.
ApiChannelStats ==
    { [subscriber_count |-> 10, view_count |-> 400, video_count |-> 2],
      [subscriber_count |-> 11, view_count |-> 500, video_count |-> 3] }

\* The statistics the platform API reports to the collector: a video whose
\* view count is 0 (or missing: .get('viewCount', 0)) but which has a like,
\* and a video with views.
ApiVideoStats ==
    { [views |-> 0,   likes |-> 1, comments |-> 0],
      [views |-> 100, likes |-> 1, comments |-> 0] }

\* The items of get_channel_videos: video_id, title and statistics.
ApiVideos ==
    { [video_id |-> v, title |-> v, views |-> s.views, likes |-> s.likes,
       comments |-> s.comments] : v \in VideoIds, s \in ApiVideoStats }

\* The result of get_channel_info.
ApiChannelInfos ==
    { [channel_id |-> c, title |-> c, subscriber_count |-> s.subscriber_count,
       view_count |-> s.view_count, video_count |-> s.video_count] :
      c \in ChannelIds, s \in ApiChannelStats }

\* The row store_video_data writes: id and video_id are both video['video_id'].
VideoRow(video, channel_id) ==
    [video_id |-> video.video_id,
     channel_id |-> channel_id,
     title |-> video.title,
     views |-> video.views,
     likes |-> video.likes,
     comments_count |-> video.comments,
     engagement_rate |-> EngagementRate(video.views, video.likes, video.comments)]

\* The row store_channel_data writes: id and channel_id are both
\* channel_info['channel_id'].
ChannelRow(channel_info) ==
    [channel_id |-> channel_info.channel_id,
     channel_name |-> channel_info.title,
     subscriber_count |-> channel_info.subscriber_count,
     view_count |-> channel_info.view_count,
     video_count |-> channel_info.video_count]

\* ---------------------------------------------------- sequences
RECURSIVE SeqSum(_)
SeqSum(s) == IF s = <<>> THEN 0 ELSE Head(s) + SeqSum(Tail(s))

RECURSIVE FloatSum(_)
FloatSum(s) == IF s = <<>> THEN Rat(0, 1) ELSE FloatAdd(Head(s), FloatSum(Tail(s)))

RECURSIVE Insert(_, _)
Insert(x, s) ==
    IF s = <<>> THEN <<x>>
    ELSE IF x <= Head(s) THEN <<x>> \o s
    ELSE <<Head(s)>> \o Insert(x, Tail(s))

RECURSIVE SortAsc(_)
SortAsc(s) == IF s = <<>> THEN <<>> ELSE Insert(Head(s), SortAsc(Tail(s)))

Range(s) == { s[i] : i \in DOMAIN s }

Max(S) == CHOOSE x \in S : \A y \in S : y <= x

\* Every arrangement of the rows of S.
RECURSIVE Arrangements(_)
Arrangements(S) ==
    IF S = {} THEN { <<>> }
    ELSE UNION { { <<r>> \o t : t \in Arrangements(S \ {r}) } : r \in S }

\* Every arrangement of the rows of S in non-increasing order of views.
RECURSIVE ViewsDescending(_)
ViewsDescending(S) ==
    IF S = {} THEN { <<>> }
    ELSE LET m == Max({ r.views : r \in S })
         IN  UNION { { <<r>> \o t : t \in ViewsDescending(S \ {r}) } :
                     r \in { x \in S : x.views = m } }

\* ------------------------------------------------------- pandas Series
views(df) == [i \in DOMAIN df |-> df[i].views]
engagement_rate(df) == [i \in DOMAIN df |-> df[i].engagement_rate]

\* Series.mean() of an integer column.
mean(s) == IF s = <<>> THEN NaN ELSE Rat(SeqSum(s), Len(s))

\* Series.mean() of a float column.
float_mean(s) == IF s = <<>> THEN NaN ELSE FloatDiv(FloatSum(s), Rat(Len(s), 1))

\* Series.quantile(qn/qd), interpolation='linear': with a the sorted values
\* and h = (n - 1) * q, the result is a[floor(h)] + (h - floor(h)) *
\* (a[floor(h) + 1] - a[floor(h)]), indices from 0.
quantile(s, qn, qd) ==
    IF s = <<>> THEN NaN
    ELSE LET a == SortAsc(s)
             n == Len(a)
             lo == ((n - 1) * qn) \div qd
             r == ((n - 1) * qn) % qd
             lower == a[lo + 1]
             upper == a[IF lo + 2 <= n THEN lo + 2 ELSE n]
         IN  Rat(lower * qd + (upper - lower) * r, qd)

\* The median taken as the upper of the two middle values, not their average.
median_upper(s) == Rat(SortAsc(s)[Len(s) \div 2 + 1], 1)

\* Series.median().
median(s) == quantile(s, 1, 2)

\* The square of Series.std(ddof): the sum of squared deviations from the
\* mean over n - ddof; NaN when n - ddof <= 0.  With S the sum,
\* sum (x - S/n)^2 = sum (n x - S)^2 / n^2.
var(s, ddof) ==
    LET n == Len(s)
        S == SeqSum(s)
    IN  IF n - ddof <= 0 THEN NaN
        ELSE Rat(SeqSum([i \in DOMAIN s |-> (n * s[i] - S) * (n * s[i] - S)]),
                 n * n * (n - ddof))

\* ------------------------------------------------------ the queries
\* A query either fails (sqlite3.connect or pd.read_sql_query raises) or
\* yields a table.
QueryFailed == [failed |-> TRUE, df |-> EmptyDataFrame]
QueryResult(d) == [failed |-> FALSE, df |-> d]

\* `if channel_id:` selects the filtered query.
Filtered(channel_id) == channel_id # NoChannel

\* SELECT v.title, v.views, v.likes, v.comments_count, v.engagement_rate,
\* c.channel_name FROM video_analytics v JOIN channels c
\* ON v.channel_id = c.channel_id [WHERE v.channel_id = ?]: the joined rows.
JoinedVideoRows(channel_id) ==
    { [title |-> v.title, views |-> v.views, likes |-> v.likes,
       comments_count |-> v.comments_count,
       engagement_rate |-> v.engagement_rate,
       channel_name |-> c.channel_name] :
      <<v, c>> \in { p \in Range(video_analytics) \X channels :
                       /\ p[1].channel_id = p[2].channel_id
                       /\ (Filtered(channel_id) => p[1].channel_id = channel_id) } }

\* ... ORDER BY v.views DESC.  SQL leaves the order of rows with equal views
\* to the storage engine: every order that is non-increasing in views is a
\* possible result.
VideoQuery(channel_id) ==
    {QueryFailed} \cup { QueryResult(d) : d \in ViewsDescending(JoinedVideoRows(channel_id)) }

\* The overview query with its WHERE clause left out.
OverviewRows_unfiltered(channel_id) ==
    { [channel_name |-> c.channel_name,
       subscriber_count |-> c.subscriber_count,
       view_count |-> c.view_count,
       video_count |-> c.video_count,
       videos_analyzed |->
           Cardinality({ i \in DOMAIN video_analytics :
                           video_analytics[i].channel_id = c.channel_id })] :
      c \in channels }

\* SELECT c.channel_name, c.subscriber_count, c.view_count, c.video_count,
\* COUNT(v.video_id) as videos_analyzed, ... FROM channels c LEFT JOIN
\* video_analytics v ON c.channel_id = v.channel_id [WHERE c.channel_id = ?]
\* GROUP BY c.channel_id: one row per selected channel, also for a channel
\* without videos.  The AVG/MAX/MIN columns are read by no caller and are
\* left out.
OverviewRows(channel_id) ==
    { [channel_name |-> c.channel_name,
       subscriber_count |-> c.subscriber_count,
       view_count |-> c.view_count,
       video_count |-> c.video_count,
       videos_analyzed |->
           Cardinality({ i \in DOMAIN video_analytics :
                           video_analytics[i].channel_id = c.channel_id })] :
      c \in { x \in channels : Filtered(channel_id) => x.channel_id = channel_id } }

\* The query has no ORDER BY: the groups come in any order.
OverviewQuery(channel_id) ==
    {QueryFailed} \cup { QueryResult(d) : d \in Arrangements(OverviewRows(channel_id)) }

\* ------------------------------------------- YouTubeAnalyticsEngine
\* What a method did: the value it returned, the lines it printed, and
\* whether an exception left it.
Outcome(value, lines) == [value |-> value, stdout |-> lines, raised |-> FALSE]

\* get_channel_overview: the except branch prints and returns pd.DataFrame().
get_channel_overview_except ==
    Outcome(EmptyDataFrame, <<"Error getting channel overview">>)

get_channel_overview(q) ==
    IF q.failed THEN get_channel_overview_except ELSE Outcome(q.df, <<>>)

\* high_performers with the boundary value counted in (>= for >).
high_performers_inclusive(videos_df) ==
    LET q75 == quantile(views(videos_df), 3, 4)
    IN  Cardinality({ i \in DOMAIN videos_df :
            FloatGE(Rat(videos_df[i].views, 1), q75) })

\* medium_performers with the upper boundary left out (< for <=).
medium_performers_open(videos_df) ==
    LET q25 == quantile(views(videos_df), 1, 4)
        q75 == quantile(views(videos_df), 3, 4)
    IN  Cardinality({ i \in DOMAIN videos_df :
            /\ FloatGE(Rat(videos_df[i].views, 1), q25)
            /\ FloatLT(Rat(videos_df[i].views, 1), q75) })

\* view_distribution: the three counts of analyze_video_performance.
high_performers(videos_df) ==
    LET q75 == quantile(views(videos_df), 3, 4)
    IN  Cardinality({ i \in DOMAIN videos_df :
            FloatGT(Rat(videos_df[i].views, 1), q75) })

medium_performers(videos_df) ==
    LET q25 == quantile(views(videos_df), 1, 4)
        q75 == quantile(views(videos_df), 3, 4)
    IN  Cardinality({ i \in DOMAIN videos_df :
            /\ FloatGE(Rat(videos_df[i].views, 1), q25)
            /\ FloatLE(Rat(videos_df[i].views, 1), q75) })

low_performers(videos_df) ==
    LET q25 == quantile(views(videos_df), 1, 4)
    IN  Cardinality({ i \in DOMAIN videos_df :
            FloatLT(Rat(videos_df[i].views, 1), q25) })

\* best_performing taken from the other end of the table (iloc[-1]).
best_performing_last(videos_df) == videos_df[Len(videos_df)]

\* videos_df.iloc[0].to_dict()
best_performing(videos_df) == videos_df[1]

\* The analysis dict built for a non-empty table.
analysis_dict(videos_df) ==
    [type |-> "dict",
     len |-> 7,
     total_videos |-> Len(videos_df),
     total_views |-> SeqSum(views(videos_df)),
     avg_views |-> mean(views(videos_df)),
     median_views |-> median(views(videos_df)),
     best_performing |-> best_performing(videos_df),
     avg_engagement_rate |-> float_mean(engagement_rate(videos_df)),
     view_distribution |->
         [high_performers |-> high_performers(videos_df),
          medium_performers |-> medium_performers(videos_df),
          low_performers |-> low_performers(videos_df)]]

\* The except branch returning the bare {} of the empty-table path.
analyze_video_performance_except_bare ==
    Outcome(EmptyDict, <<"Error analyzing video performance">>)

\* analyze_video_performance: the except branch prints and returns
\* ({}, pd.DataFrame()).
analyze_video_performance_except ==
    Outcome(Tuple(EmptyDict, EmptyDataFrame), <<"Error analyzing video performance">>)

\* An empty table returns the bare dict {}, not a pair.
analyze_video_performance(q) ==
    IF q.failed THEN analyze_video_performance_except
    ELSE IF q.df = EmptyDataFrame THEN Outcome(EmptyDict, <<>>)
    ELSE Outcome(Tuple(analysis_dict(q.df), q.df), <<>>)

\* `analysis, videos_df = self.analyze_video_performance(channel_id)`
\* raises ValueError unless the value is a pair.
Unpacks(value) == value.type = "tuple"

\* Insight 1 with inclusive thresholds (>= for >).
engagement_insight_inclusive(analysis) ==
    IF FloatGE(analysis.avg_engagement_rate, Rat(3, 1))
    THEN "Great engagement"
    ELSE IF FloatGE(analysis.avg_engagement_rate, Rat(1, 1))
    THEN "Good engagement"
    ELSE "Low engagement"

\* Insight 1.
engagement_insight(analysis) ==
    IF FloatGT(analysis.avg_engagement_rate, Rat(3, 1))
    THEN "Great engagement"
    ELSE IF FloatGT(analysis.avg_engagement_rate, Rat(1, 1))
    THEN "Good engagement"
    ELSE "Low engagement"

\* The square of the population standard deviation (ddof = 0).
std_squared_population(videos_df) == var(views(videos_df), 0)

\* The square of videos_df['views'].std(): pandas' default ddof is 1.
std_squared(videos_df) == var(views(videos_df), 1)

\* The square of cv = (videos_df['views'].std() / videos_df['views'].mean()) * 100.
cv_squared(videos_df) ==
    LET m == mean(views(videos_df))
    IN  FloatMul(FloatDiv(std_squared(videos_df), FloatMul(m, m)), Rat(100 * 100, 1))

\* Insight 2: cv < 50.
consistency_insight(videos_df) ==
    IF FloatLT(cv_squared(videos_df), Rat(50 * 50, 1))
    THEN "Consistent performance"
    ELSE "High variability"

\* Insight 3 with the equal counts taken as positive (>= for >).
distribution_insight_inclusive(dist) ==
    IF dist.high_performers >= dist.low_performers
    THEN "More high-performing than low-performing"
    ELSE "Opportunity to improve"

\* Insight 3.
distribution_insight(dist) ==
    IF dist.high_performers > dist.low_performers
    THEN "More high-performing than low-performing"
    ELSE "Opportunity to improve"

\* What generate_insights_report prints once both tables are there.
ReportLines(analysis, videos_df) ==
    << "CHANNEL", "VIDEO PERFORMANCE METRICS", "BEST PERFORMING VIDEO",
       "PERFORMANCE DISTRIBUTION", "ACTIONABLE INSIGHTS",
       engagement_insight(analysis),
       consistency_insight(videos_df),
       distribution_insight(analysis.view_distribution),
       "Report saved to", "Analysis complete" >>

\* The values the report shows.
ReportValues(overview, analysis, videos_df) ==
    [channel_name |-> overview[1].channel_name,
     subscriber_count |-> overview[1].subscriber_count,
     view_count |-> overview[1].view_count,
     video_count |-> overview[1].video_count,
     analysis |-> analysis,
     videos_df |-> videos_df]

\* The first line generate_insights_report prints.
ReportBanner == <<"Generating YouTube Analytics Insights Report">>

\* The outcome of a method that catches everything and returns None.
Printed(lines, shown, written) ==
    [value |-> NoneValue, raised |-> FALSE, stdout |-> lines,
     report |-> shown, files |-> written]

\* generate_insights_report after its two calls: ov and avp are the outcomes
\* of get_channel_overview and analyze_video_performance.  Every path
\* returns None; report is <<>> or the shown values.  Whatever is raised
\* inside, the failed unpacking of {} included, is caught by
\* `except Exception` and printed.
insights_report(ov, avp) ==
    IF ov.raised
    THEN Printed(ReportBanner \o ov.stdout
                     \o <<"Error generating insights report">>, <<>>, {})
    ELSE IF ov.value = EmptyDataFrame
    THEN Printed(ReportBanner \o ov.stdout \o <<"No channel data available">>,
                 <<>>, {})
    ELSE IF avp.raised \/ ~Unpacks(avp.value)
    THEN Printed(ReportBanner \o ov.stdout \o avp.stdout
                     \o <<"Error generating insights report">>, <<>>, {})
    ELSE IF avp.value.analysis = EmptyDict
    THEN Printed(ReportBanner \o ov.stdout \o avp.stdout
                     \o <<"No video analysis data available">>, <<>>, {})
    ELSE Printed(ReportBanner \o ov.stdout \o avp.stdout
                     \o ReportLines(avp.value.analysis, avp.value.videos_df),
                 <<ReportValues(ov.value, avp.value.analysis, avp.value.videos_df)>>,
                 {})

\* report_file = self.results_dir / f"insights_report_{timestamp}.txt": the
\* path generate_insights_report builds and prints.  The method opens and
\* writes no file, so the files insights_report gives are {} on every path.
report_file == "insights_report.txt"

\* generate_insights_report(channel_id), given the outcomes of its two
\* queries.
generate_insights_report(qo, qv) ==
    insights_report(get_channel_overview(qo), analyze_video_performance(qv))

\* The file plt.savefig writes into results_dir.
PerformancePng == "performance_analysis.png"

\* create_performance_visualizations after its call of
\* analyze_video_performance.
performance_visualizations(avp) ==
    IF avp.raised \/ ~Unpacks(avp.value)
    THEN Printed(avp.stdout \o <<"Error creating visualizations">>, <<>>, {})
    ELSE IF avp.value.videos_df = EmptyDataFrame
    THEN Printed(avp.stdout \o <<"No video data available for visualization">>,
                 <<>>, {})
    ELSE Printed(avp.stdout \o <<"Performance visualization saved">>, <<>>,
                 {PerformancePng})

\* create_performance_visualizations(channel_id), given the outcome of its
\* query: the lines printed and the files written.
create_performance_visualizations(qv2) ==
    performance_visualizations(analyze_video_performance(qv2))

\* run_complete_analysis after its two calls: the report, then the
\* visualizations; the method has no return statement.
complete_analysis(gir, cpv) ==
    Printed(<<"Starting Complete YouTube Analytics">> \o gir.stdout
                \o <<"Creating performance visualizations">> \o cpv.stdout
                \o <<"Complete analysis finished">>,
            gir.report, cpv.files)

run_complete_analysis(qo, qv, qv2) ==
    complete_analysis(generate_insights_report(qo, qv),
                      create_performance_visualizations(qv2))

\* ------------------------------------------------------ MCPDashboard
\* display_analysis_results(results): results.get('summary', {}) raises
\* AttributeError unless results is a dict; otherwise the four metrics and
\* the distribution chart are rendered.
display_analysis_results(results) ==
    IF results.type # "dict"
    THEN [raised |-> TRUE, st |-> <<>>]
    ELSE [raised |-> FALSE, st |-> <<"metrics", "Performance Distribution">>]

\* The try block of run_dashboard after display_analysis_results, and its
\* except.
dashboard_rendered(shown) ==
    IF shown.raised THEN <<"Analysis failed">>
    ELSE shown.st \o <<"AI-Powered Insights">>

\* The analysis section of run_dashboard, given what run_complete_analysis
\* did.
analysis_section(rca) ==
    [value |-> rca.value, raised |-> FALSE, stdout |-> rca.stdout,
     report |-> rca.report, files |-> rca.files,
     st |-> dashboard_rendered(display_analysis_results(rca.value))]

run_dashboard(qo, qv, qv2) == analysis_section(run_complete_analysis(qo, qv, qv2))

\* ---------------------------------------------------- connections
\* How many connections a query method leaves open when it returns.  On
\* success conn.close() runs before the return.  The except branch has no
\* conn.close(): when pd.read_sql_query raised, the connection that
\* sqlite3.connect returned is still open at the return; when
\* sqlite3.connect raised, none was opened.
ConnectionsLeft(q) == IF q.failed THEN {0, 1} ELSE {0}

SumSets(A, B) == { a + b : a \in A, b \in B }

\* generate_insights_report runs the video query only after a non-empty
\* overview.
report_connections(qo, qv) ==
    IF get_channel_overview(qo).value = EmptyDataFrame
    THEN ConnectionsLeft(qo)
    ELSE SumSets(ConnectionsLeft(qo), ConnectionsLeft(qv))

\* run_complete_analysis: the report, then the visualizations.
complete_connections(qo, qv, qv2) ==
    SumSets(report_connections(qo, qv), ConnectionsLeft(qv2))

\* --------------------------------------------------------- the calls
Call(op, channel_id, qo, qv, qv2) ==
    [op |-> op, channel_id |-> channel_id, overview_failed |-> qo.failed,
     videos_failed |-> qv.failed, visual_failed |-> qv2.failed]

NoQuery == QueryResult(EmptyDataFrame)

\* No call is in progress: the caller has taken the last call's result.
NoCall == Call("none", NoChannel, NoQuery, NoQuery, NoQuery)
Idle == call = NoCall

\* Where a run_complete_analysis taken query by query stands (pc), what its
\* three queries read, and whether a collector wrote to the store between
\* its first read and its last.
Pass(pc, channel_id, qo, qv, qv2, written) ==
    [pc |-> pc, channel_id |-> channel_id, overview |-> qo, videos |-> qv,
     visual |-> qv2, written |-> written]

\* No run_complete_analysis is in progress.
NoPass == Pass("idle", NoChannel, NoQuery, NoQuery, NoQuery, FALSE)

\* INSERT OR REPLACE INTO channels: the row with the same id / channel_id,
\* if any, is deleted and the new row inserted.
InsertOrReplaceChannel(table, row) ==
    { c \in table : c.channel_id # row.channel_id } \cup {row}

\* A plain INSERT into a table without the key: the old row stays.
InsertVideo(table, row) == table \o <<row>>

\* INSERT OR REPLACE INTO video_analytics: the row with the same id, if any,
\* is deleted and the new row inserted; it gets a new rowid, the largest.
InsertOrReplaceVideo(table, row) ==
    SelectSeq(table, LAMBDA r : r.video_id # row.video_id) \o <<row>>

\* A call of one of the collector's store methods: the row it was given,
\* whether the write failed, and the row it replaced (<<>> if none).
StoreCall(op, row, fails, replaced) ==
    [op |-> op, channel_id |-> row.channel_id, failed |-> fails,
     stored |-> row, replaced |-> replaced]

\* SimpleDataCollector.store_channel_data(channel_info): INSERT OR REPLACE
\* on the key channel_id; a failing write is caught and printed.
StoreChannelData(channel_info, fails) ==
    /\ Idle
    /\ channels' =
           IF fails THEN channels
           ELSE InsertOrReplaceChannel(channels, ChannelRow(channel_info))
    /\ stdout' = IF fails THEN <<"Error storing channel data">>
                 ELSE <<"Stored channel data">>
    /\ call' = StoreCall("store_channel_data", ChannelRow(channel_info), fails,
                         { c \in channels : c.channel_id = channel_info.channel_id })
    /\ returned' = NoneValue
    /\ raised' = FALSE
    /\ report' = <<>>
    /\ st' = <<>>
    /\ UNCHANGED <<video_analytics, results_dir, conn, pass>>

\* SimpleDataCollector.store_video_data(video, channel_id): INSERT OR REPLACE
\* on the key video_id; a failing write is caught and printed.
StoreVideoData(video, channel_id, fails) ==
    /\ Idle
    /\ video_analytics' =
           IF fails THEN video_analytics
           ELSE InsertOrReplaceVideo(video_analytics, VideoRow(video, channel_id))
    /\ stdout' = IF fails THEN <<"Error storing video data">>
                 ELSE <<"Stored video">>
    /\ call' = StoreCall("store_video_data", VideoRow(video, channel_id), fails,
                         { r \in Range(video_analytics) : r.video_id = video.video_id })
    /\ returned' = NoneValue
    /\ raised' = FALSE
    /\ report' = <<>>
    /\ st' = <<>>
    /\ UNCHANGED <<channels, results_dir, conn, pass>>

\* ------------------------------------------- SimpleDataCollector
\* True and False as returned values.
Bool(b) == [type |-> "bool", value |-> b]

\* The videos of a channel's uploads playlist: videos 1 and 2 belong to
\* channel 1, videos 3 and 4 to channel 2, and so on.
Uploads(channel_id) == { v \in VideoIds : (v + 1) \div 2 = channel_id }

\* What a request to the platform API gives: a response with items, an
\* HttpError, or another exception (the network is down).
ApiResponse(items) == [error |-> "none", items |-> items]
ApiHttpError == [error |-> "HttpError", items |-> <<>>]
ApiException == [error |-> "Exception", items |-> <<>>]
\* The channel's contentDetails request of get_channel_videos has no item.
ApiNoItems == [error |-> "no items", items |-> <<>>]

\* channels().list(part="snippet,statistics", id=channel_id): the channel
\* with its statistics, or no item.
InfoResponses(channel_id) ==
    {ApiHttpError, ApiException, ApiResponse(<<>>)}
        \cup { ApiResponse(<<i>>) : i \in { x \in ApiChannelInfos : x.channel_id = channel_id } }

\* The video lists get_channel_videos can build for a channel: some of its
\* uploads, each with the statistics reported for it, in the order the
\* platform lists them.
VideoLists(channel_id) ==
    UNION { UNION { Arrangements({ [video_id |-> v, title |-> v, views |-> f[v].views,
                                    likes |-> f[v].likes, comments |-> f[v].comments] :
                                   v \in V }) :
                    f \in [V -> ApiVideoStats] } :
            V \in SUBSET Uploads(channel_id) }

VideoResponses(channel_id) ==
    {ApiHttpError, ApiException, ApiNoItems}
        \cup { ApiResponse(l) : l \in VideoLists(channel_id) }

\* What a collector method did: Outcome, or an exception that left it.
Raised(lines) == [value |-> NoneValue, stdout |-> lines, raised |-> TRUE]

\* get_channel_info: an HttpError is caught, printed and answered with None;
\* a response without items gives None; any other exception leaves the
\* method.
get_channel_info(response) ==
    IF response.error = "Exception" THEN Raised(<<>>)
    ELSE IF response.error = "HttpError"
    THEN Outcome(NoneValue, <<"Error getting channel info">>)
    ELSE IF response.items = <<>> THEN Outcome(NoneValue, <<>>)
    ELSE Outcome(response.items[1], <<"Retrieved info for channel">>)

\* get_channel_videos: an HttpError is caught, printed and answered with
\* the empty list []; a channel without items gives [] as well.
get_channel_videos(response) ==
    IF response.error = "Exception" THEN Raised(<<>>)
    ELSE IF response.error = "HttpError"
    THEN Outcome(<<>>, <<"Error getting videos">>)
    ELSE IF response.error = "no items" THEN Outcome(<<>>, <<>>)
    ELSE Outcome(response.items, <<"Retrieved videos">>)

\* store_channel_data on a table.
store_channel_data(table, channel_info, fails) ==
    IF fails THEN table ELSE InsertOrReplaceChannel(table, ChannelRow(channel_info))

\* `for video in videos: self.store_video_data(video, channel_id)`; failing
\* holds the video_ids whose write fails.
RECURSIVE store_videos(_, _, _, _)
store_videos(table, videos, channel_id, failing) ==
    IF videos = <<>> THEN table
    ELSE store_videos(IF Head(videos).video_id \in failing THEN table
                      ELSE InsertOrReplaceVideo(table, VideoRow(Head(videos), channel_id)),
                      Tail(videos), channel_id, failing)

\* The lines the store calls of collect_channel_data print.
store_lines(videos, failing) ==
    [i \in DOMAIN videos |->
        IF videos[i].video_id \in failing THEN "Error storing video data"
        ELSE "Stored video"]

\* What collect_channel_data did: the value returned, the lines printed and
\* the two tables.
Collected(value, lines, raises, c, v) ==
    [value |-> value, stdout |-> lines, raised |-> raises,
     channels |-> c, video_analytics |-> v]

CollectionStarted == <<"Starting data collection for channel">>

\* collect_channel_data after get_channel_info returned channel_info: gv is
\* what get_channel_videos did.
collect_videos(channel_id, channel_info, channel_lines, stored_channels, gv, failing) ==
    IF gv.raised
    THEN Collected(NoneValue, CollectionStarted \o channel_lines, TRUE,
                   stored_channels, video_analytics)
    ELSE Collected(Bool(TRUE),
                   CollectionStarted \o channel_lines \o gv.stdout
                       \o store_lines(gv.value, failing)
                       \o <<"Completed data collection", "Collected videos">>,
                   FALSE, stored_channels,
                   store_videos(video_analytics, gv.value, channel_id, failing))

\* collect_channel_data(channel_id): `if not channel_info: return False`
\* before anything is stored.
collect_channel_data(channel_id, gi, channel_fails, gv, failing) ==
    IF gi.raised
    THEN Collected(NoneValue, CollectionStarted, TRUE, channels, video_analytics)
    ELSE IF gi.value = NoneValue
    THEN Collected(Bool(FALSE), CollectionStarted \o gi.stdout, FALSE,
                   channels, video_analytics)
    ELSE collect_videos(channel_id, gi.value,
                        gi.stdout \o (IF channel_fails THEN <<"Error storing channel data">>
                                      ELSE <<"Stored channel data">>),
                        store_channel_data(channels, gi.value, channel_fails),
                        gv, failing)

\* A call of collect_channel_data: the errors of its two fetches ("skipped"
\* for a fetch that was not made) and the writes that failed.
CollectCall(channel_id, info_error, videos_error, channel_fails, failing) ==
    [op |-> "collect_channel_data", channel_id |-> channel_id,
     info_error |-> info_error, videos_error |-> videos_error,
     channel_write_failed |-> channel_fails, video_writes_failed |-> failing]

\* The caller sees what collect_channel_data did.
Collects(c, r) ==
    /\ Idle
    /\ call' = c
    /\ channels' = r.channels
    /\ video_analytics' = r.video_analytics
    /\ returned' = r.value
    /\ raised' = r.raised
    /\ stdout' = r.stdout
    /\ report' = <<>>
    /\ st' = <<>>
    /\ UNCHANGED <<results_dir, conn, pass>>

\* collect_channel_data ending at the channel-info fetch.
CollectAborted(channel_id, info_response) ==
    /\ info_response.error # "none" \/ info_response.items = <<>>
    /\ Collects(CollectCall(channel_id, info_response.error, "skipped", FALSE, {}),
                collect_channel_data(channel_id, get_channel_info(info_response),
                                     FALSE, Raised(<<>>), {}))

\* collect_channel_data going on to store the channel and fetch the videos.
CollectStored(channel_id, info_response, channel_fails, videos_response, failing) ==
    /\ info_response.error = "none"
    /\ info_response.items # <<>>
    /\ Collects(CollectCall(channel_id, "none", videos_response.error,
                            channel_fails, failing),
                collect_channel_data(channel_id, get_channel_info(info_response),
                                     channel_fails,
                                     get_channel_videos(videos_response), failing))

\* What an engine call leaves behind when it returns.
Seen(op, r, rendered, left) ==
    /\ Idle
    /\ call' = op
    /\ conn' \in left
    /\ returned' = r.value
    /\ raised' = r.raised
    /\ stdout' = r.stdout
    /\ report' = r.report
    /\ st' = rendered
    /\ results_dir' = results_dir \cup r.files
    /\ UNCHANGED <<channels, video_analytics>>

\* The caller sees what the engine call did, the call taken as one step.
Observe(op, r, rendered, left) ==
    /\ Seen(op, r, rendered, left)
    /\ UNCHANGED pass

\* A query method's outcome, in the shape Observe takes.
Queried(r, value) ==
    [value |-> value, raised |-> r.raised, stdout |-> r.stdout,
     report |-> <<>>, files |-> {}]

overview_outcome(r) == Queried(r, DataFrame(r.value))
performance_outcome(r) == Queried(r, r.value)

GetChannelOverview(channel_id, qo) ==
    Observe(Call("get_channel_overview", channel_id, qo, NoQuery, NoQuery),
            overview_outcome(get_channel_overview(qo)), <<>>, ConnectionsLeft(qo))

AnalyzeVideoPerformance(channel_id, qv) ==
    Observe(Call("analyze_video_performance", channel_id, NoQuery, qv, NoQuery),
            performance_outcome(analyze_video_performance(qv)), <<>>,
            ConnectionsLeft(qv))

GenerateInsightsReport(channel_id, qo, qv) ==
    Observe(Call("generate_insights_report", channel_id, qo, qv, NoQuery),
            generate_insights_report(qo, qv), <<>>, report_connections(qo, qv))

CreatePerformanceVisualizations(channel_id, qv2) ==
    Observe(Call("create_performance_visualizations", channel_id,
                 NoQuery, NoQuery, qv2),
            create_performance_visualizations(qv2), <<>>, ConnectionsLeft(qv2))

RunCompleteAnalysis(channel_id, qo, qv, qv2) ==
    Observe(Call("run_complete_analysis", channel_id, qo, qv, qv2),
            run_complete_analysis(qo, qv, qv2), <<>>,
            complete_connections(qo, qv, qv2))

\* MCPDashboard.run_dashboard with analyze_channel set: returned is the
\* value the dashboard got from run_complete_analysis.
Rendered(op, r, left) == Observe(op, r, r.st, left)

RunDashboard(channel_id, qo, qv, qv2) ==
    Rendered(Call("run_dashboard", channel_id, qo, qv, qv2),
             run_dashboard(qo, qv, qv2), complete_connections(qo, qv, qv2))

\* The caller takes the result; the next call starts from the same store
\* (each call is synchronous and self-contained).
Return ==
    /\ ~Idle
    /\ call' = NoCall
    /\ returned' = NoneValue
    /\ raised' = FALSE
    /\ stdout' = <<>>
    /\ report' = <<>>
    /\ st' = <<>>
    /\ conn' = 0
    /\ pass' = NoPass
    /\ UNCHANGED <<channels, video_analytics, results_dir>>

\* ------------------------------------------------- the specifications
NothingCalled ==
    /\ results_dir = {}
    /\ call = NoCall
    /\ returned = NoneValue
    /\ raised = FALSE
    /\ stdout = <<>>
    /\ report = <<>>
    /\ st = <<>>
    /\ conn = 0
    /\ pass = NoPass

\* The tables the collector leaves after storing videos 1..n of channel 1
\* in turn, n <= MaxRows.
StoredTables ==
    UNION { { [i \in 1..n |->
                 VideoRow([video_id |-> i, title |-> i, views |-> f[i].views,
                           likes |-> f[i].likes, comments |-> f[i].comments], 1)] :
              f \in [1..n -> VideoStats] } : n \in 0..MaxRows }

StoredChannel ==
    ChannelRow([channel_id |-> 1, title |-> 1, subscriber_count |-> 10,
                view_count |-> 400, video_count |-> 2])

\* A second channel, collected after the first.
SecondChannel ==
    ChannelRow([channel_id |-> 2, title |-> 2, subscriber_count |-> 11,
                view_count |-> 500, video_count |-> 3])

\* The tables the collector leaves after storing video 1 for channel 1 and
\* video 2 for channel 2.
TwoChannelTables ==
    { << VideoRow([video_id |-> 1, title |-> 1, views |-> f.views,
                   likes |-> f.likes, comments |-> f.comments], 1),
         VideoRow([video_id |-> 2, title |-> 2, views |-> g.views,
                   likes |-> g.likes, comments |-> g.comments], 2) >> :
      f \in VideoStats, g \in VideoStats }

\* YouTubeAnalyticsEngine() is constructed over the store as a collector
\* left it: nothing stored, or channel 1 and up to MaxRows of its videos, or
\* two channels with one video each.
Init ==
    /\ \/ channels = {} /\ video_analytics = <<>>
       \/ channels = {StoredChannel} /\ video_analytics \in StoredTables
       \/ channels = {StoredChannel, SecondChannel}
              /\ video_analytics \in TwoChannelTables
    /\ NothingCalled

\* A call starts only when the caller holds no pending result.
Query ==
    \/ /\ Idle
       /\ \E channel_id \in ChannelArgs :
              \E qo \in OverviewQuery(channel_id) :
                  GetChannelOverview(channel_id, qo)
    \/ /\ Idle
       /\ \E channel_id \in ChannelArgs :
              \E qv \in VideoQuery(channel_id) :
                  AnalyzeVideoPerformance(channel_id, qv)

Report ==
    /\ Idle
    /\ \E channel_id \in ChannelArgs :
           \E qo \in OverviewQuery(channel_id), qv \in VideoQuery(channel_id) :
               GenerateInsightsReport(channel_id, qo, qv)

Analyse ==
    \/ /\ Idle
       /\ \E channel_id \in ChannelArgs :
              \E qv2 \in VideoQuery(channel_id) :
                  CreatePerformanceVisualizations(channel_id, qv2)
    \/ /\ Idle
       /\ \E channel_id \in ChannelArgs :
              \E qo \in OverviewQuery(channel_id), qv \in VideoQuery(channel_id),
                 qv2 \in VideoQuery(channel_id) :
                  RunCompleteAnalysis(channel_id, qo, qv, qv2)
    \/ /\ Idle
       /\ \E channel_id \in ChannelArgs :
              \E qo \in OverviewQuery(channel_id), qv \in VideoQuery(channel_id),
                 qv2 \in VideoQuery(channel_id) :
                  RunDashboard(channel_id, qo, qv, qv2)

\* The engine and the dashboard over a stored table.
Next == Query \/ Report \/ Analyse \/ Return

Spec == Init /\ [][Next]_vars

\* The collector filling an empty store.
InitStore ==
    /\ channels = {}
    /\ video_analytics = <<>>
    /\ NothingCalled

Collect ==
    \/ /\ Idle
       /\ \E channel_info \in ApiChannelInfos, fails \in BOOLEAN :
              StoreChannelData(channel_info, fails)
    \/ /\ Idle
       /\ \E video \in ApiVideos, channel_id \in ChannelIds, fails \in BOOLEAN :
              StoreVideoData(video, channel_id, fails)

NextStore == Collect \/ Return

SpecStore == InitStore /\ [][NextStore]_vars

\* The video_ids of a response's items.
ListedIds(response) == { response.items[i].video_id : i \in DOMAIN response.items }

CollectChannelData ==
    \/ /\ Idle
       /\ \E channel_id \in ChannelIds :
              \E info_response \in InfoResponses(channel_id) :
                  CollectAborted(channel_id, info_response)
    \/ /\ Idle
       /\ \E channel_id \in ChannelIds, channel_fails \in BOOLEAN :
              \E info_response \in InfoResponses(channel_id),
                 videos_response \in VideoResponses(channel_id) :
                  \E failing \in SUBSET ListedIds(videos_response) :
                      CollectStored(channel_id, info_response, channel_fails,
                                    videos_response, failing)

\* Runs of collect_channel_data over an empty store.
NextCollect == CollectChannelData \/ Return

SpecCollect == InitStore /\ [][NextCollect]_vars

\* ------------------------------ run_complete_analysis, query by query
\* run_complete_analysis(channel_id) is entered; generate_insights_report
\* is its first call.
StartAnalysis(channel_id) ==
    /\ Idle
    /\ pass.pc = "idle"
    /\ pass' = Pass("overview", channel_id, NoQuery, NoQuery, NoQuery, FALSE)
    /\ UNCHANGED <<channels, video_analytics, results_dir, call, returned,
                   raised, stdout, report, st, conn>>

\* generate_insights_report: overview = self.get_channel_overview(channel_id)
\* reads the store over a connection of its own; `if overview.empty: return`
\* skips the video query.
ReadOverview ==
    /\ pass.pc = "overview"
    /\ \E qo \in OverviewQuery(pass.channel_id) :
           pass' = Pass(IF get_channel_overview(qo).value = EmptyDataFrame
                        THEN "visual" ELSE "videos",
                        pass.channel_id, qo, NoQuery, NoQuery, pass.written)
    /\ UNCHANGED <<channels, video_analytics, results_dir, call, returned,
                   raised, stdout, report, st, conn>>

\* generate_insights_report: self.analyze_video_performance(channel_id)
\* reads the store over a second connection.
ReadReportVideos ==
    /\ pass.pc = "videos"
    /\ \E qv \in VideoQuery(pass.channel_id) :
           pass' = Pass("visual", pass.channel_id, pass.overview, qv, NoQuery,
                        pass.written)
    /\ UNCHANGED <<channels, video_analytics, results_dir, call, returned,
                   raised, stdout, report, st, conn>>

\* create_performance_visualizations: self.analyze_video_performance(channel_id)
\* reads the store over a third connection, and run_complete_analysis
\* returns.
ReadVisualVideos ==
    /\ pass.pc = "visual"
    /\ \E qv2 \in VideoQuery(pass.channel_id) :
           /\ pass' = Pass("done", pass.channel_id, pass.overview, pass.videos,
                           qv2, pass.written)
           /\ Seen(Call("run_complete_analysis", pass.channel_id,
                        pass.overview, pass.videos, qv2),
                   run_complete_analysis(pass.overview, pass.videos, qv2), <<>>,
                   complete_connections(pass.overview, pass.videos, qv2))

\* A write a collector process commits to the store the engine reads.
CollectorStores(new_channels, new_videos) ==
    /\ channels' = new_channels
    /\ video_analytics' = new_videos
    /\ pass' = [pass EXCEPT !.written = @ \/ pass.pc \in {"videos", "visual"}]
    /\ UNCHANGED <<results_dir, call, returned, raised, stdout, report, st, conn>>

\* The channel a collector is collecting while the engine runs, and the
\* rows collect_channel_data stores for it.
CollectedInfos == { i \in ApiChannelInfos : i.channel_id = StoredChannel.channel_id }
CollectedVideos ==
    { v \in ApiVideos : v.video_id \in Uploads(StoredChannel.channel_id) }

AnalysisPass ==
    \/ \E channel_id \in ChannelArgs : StartAnalysis(channel_id)
    \/ ReadOverview
    \/ ReadReportVideos
    \/ ReadVisualVideos

\* store_channel_data and store_video_data of a collector, committed at any
\* point of the engine's run.
Interleave ==
    \/ \E channel_info \in CollectedInfos :
           CollectorStores(InsertOrReplaceChannel(channels, ChannelRow(channel_info)),
                           video_analytics)
    \/ \E video \in CollectedVideos :
           /\ Len(InsertOrReplaceVideo(video_analytics,
                      VideoRow(video, StoredChannel.channel_id))) <= MaxRows
           /\ CollectorStores(channels,
                  InsertOrReplaceVideo(video_analytics,
                      VideoRow(video, StoredChannel.channel_id)))

\* The engine over a store a collector is filling.
NextInterleaved == AnalysisPass \/ Interleave \/ Return

SpecInterleaved == InitStore /\ [][NextInterleaved]_vars

\* ------------------------------------------------------ properties
Contains(lines, x) == \E i \in DOMAIN lines : lines[i] = x
Count(lines, S) == Cardinality({ i \in DOMAIN lines : lines[i] \in S })
Last(lines) == lines[Len(lines)]

\* The last call was analyze_video_performance and it returned a pair with
\* a non-empty table.
Analyzed ==
    /\ call.op = "analyze_video_performance"
    /\ returned.type = "tuple"
    /\ returned.videos_df # EmptyDataFrame

\* Four times the p-th quartile of the views of a table that is in
\* non-increasing order of views, by linear interpolation between the two
\* order statistics around position (n - 1) * p / 4 (counted from the
\* smallest value, from 0).
Quartile4(df, p) ==
    LET n == Len(df)
        lo == ((n - 1) * p) \div 4
        r == ((n - 1) * p) % 4
        lower == df[n - lo].views
        upper == df[IF lo + 1 < n THEN n - lo - 1 ELSE 1].views
    IN  (4 - r) * lower + r * upper

NonIncreasing(df) == \A i \in DOMAIN df : i > 1 => df[i - 1].views >= df[i].views

\* C1: for every non-empty video table the counts of
\* analyze_video_performance satisfy high + medium + low = total_videos,
\* with high the views strictly above the 75th percentile, low strictly
\* below the 25th, medium within the closed interval between them, the
\* percentiles interpolated linearly: each video is in exactly one bucket.
C1_BucketsPartition ==
    Analyzed =>
        LET df == returned.videos_df
            dist == returned.analysis.view_distribution
        IN  /\ returned.analysis.total_videos = Len(df)
            /\ NonIncreasing(df)
            /\ dist.high_performers + dist.medium_performers + dist.low_performers
                   = returned.analysis.total_videos
            /\ dist.high_performers =
                   Cardinality({ i \in DOMAIN df : 4 * df[i].views > Quartile4(df, 3) })
            /\ dist.low_performers =
                   Cardinality({ i \in DOMAIN df : 4 * df[i].views < Quartile4(df, 1) })
            /\ dist.medium_performers =
                   Cardinality({ i \in DOMAIN df :
                       /\ 4 * df[i].views >= Quartile4(df, 1)
                       /\ 4 * df[i].views <= Quartile4(df, 3) })

\* A table of three videos with one in each bucket has been analysed.
C1_Witness ==
    /\ Analyzed
    /\ Len(returned.videos_df) = 3
    /\ returned.analysis.view_distribution =
           [high_performers |-> 1, medium_performers |-> 1, low_performers |-> 1]

AllViewsIdentical(df) == \A i, j \in DOMAIN df : df[i].views = df[j].views

\* C7: when all view counts of the table are identical (a table of one
\* video included), high_performers = 0, low_performers = 0 and
\* medium_performers = total_videos.
C7_IdenticalViewsAllMedium ==
    (Analyzed /\ AllViewsIdentical(returned.videos_df)) =>
        /\ returned.analysis.view_distribution.high_performers = 0
        /\ returned.analysis.view_distribution.low_performers = 0
        /\ returned.analysis.view_distribution.medium_performers
               = returned.analysis.total_videos

\* A table of several videos, all with the same positive views, has been
\* analysed.
C7_Witness ==
    /\ Analyzed
    /\ AllViewsIdentical(returned.videos_df)
    /\ Len(returned.videos_df) >= 2
    /\ returned.videos_df[1].views > 0

\* The last call was the insights report, alone or inside
\* run_complete_analysis.
ReportCalled == call.op \in {"generate_insights_report", "run_complete_analysis"}

\* Both storage queries of the report succeeded.
QueriesSucceeded == ~call.overview_failed /\ ~call.videos_failed

NoDataLines == {"No channel data available", "No video analysis data available"}
ErrorLines == {"Error generating insights report"}
EngagementLines == {"Great engagement", "Good engagement", "Low engagement"}
ConsistencyLines == {"Consistent performance", "High variability"}
DistributionLines ==
    {"More high-performing than low-performing", "Opportunity to improve"}
InsightLines == EngagementLines \cup ConsistencyLines \cup DistributionLines

\* C2: when the video query returns zero rows (the channel exists but has
\* no videos, or the store has no videos), the analysis ends in the explicit
\* no-data outcome: not in an error outcome produced by an exception, not in
\* a report, and without any insight statement.
C2_EmptyTableIsNoData ==
    (/\ ReportCalled
     /\ QueriesSucceeded
     /\ JoinedVideoRows(call.channel_id) = {}) =>
        /\ Count(stdout, NoDataLines) = 1
        /\ Count(stdout, ErrorLines) = 0
        /\ Count(stdout, InsightLines) = 0
        /\ report = <<>>

\* C3: run_complete_analysis(channel_id), called for a channel with at
\* least one stored video, returns a structure holding a summary and the
\* ordered insight statements, which display_analysis_results can read.
C3_ReturnsSummaryAndInsights ==
    (/\ call.op \in {"run_complete_analysis", "run_dashboard"}
     /\ Filtered(call.channel_id)
     /\ QueriesSucceeded
     /\ ~call.visual_failed
     /\ JoinedVideoRows(call.channel_id) # {}) =>
        /\ returned.type = "dict"
        /\ "summary" \in DOMAIN returned
        /\ "insights" \in DOMAIN returned
        /\ (call.op = "run_dashboard" => ~Contains(st, "Analysis failed"))

\* What the caller of generate_insights_report gets: the returned value,
\* whether an exception reached it, and the line the report ended with.
ReportOutcome(r) == <<r.value, r.raised, Last(r.stdout)>>

\* C4: a storage-access failure is surfaced to the caller of the analysis
\* as an error outcome distinguishable from the no-data outcome: the outcome
\* of generate_insights_report when the storage query fails differs from
\* its outcome when the query succeeds with zero rows.
C4_FailureDistinctFromNoData ==
    (/\ call.op = "generate_insights_report"
     /\ call.overview_failed
     /\ OverviewRows(call.channel_id) = {}) =>
        /\ <<returned, raised, Last(stdout)>>
               # ReportOutcome(generate_insights_report(NoQuery, NoQuery))
        /\ Count(stdout, NoDataLines) = 0

\* C5: on a storage-access failure get_channel_overview and
\* analyze_video_performance do not raise: the first returns an empty table,
\* the second an empty analysis together with an empty table.
C5_QueryFailureReturnsEmpty ==
    /\ (call.op = "get_channel_overview" /\ call.overview_failed) =>
           /\ ~raised
           /\ returned = DataFrame(EmptyDataFrame)
    /\ (call.op = "analyze_video_performance" /\ call.videos_failed) =>
           /\ ~raised
           /\ returned = Tuple(EmptyDict, EmptyDataFrame)

\* The video query failed over a store that holds videos of the channel.
C5_Witness ==
    /\ call.op = "analyze_video_performance"
    /\ call.videos_failed
    /\ JoinedVideoRows(call.channel_id) # {}
    /\ returned = Tuple(EmptyDict, EmptyDataFrame)

\* The stored videos the video query selects, in the storage's row order.
StoredSelection(channel_id) ==
    SelectSeq(video_analytics,
              LAMBDA v : /\ \E c \in channels : c.channel_id = v.channel_id
                         /\ (Filtered(channel_id) => v.channel_id = channel_id))

MaxViews(rows) == Max({ rows[i].views : i \in DOMAIN rows })

\* The title of the first row, in the storage's row order, with the
\* maximum views.
FirstWithMaxViews(rows) ==
    rows[CHOOSE i \in DOMAIN rows :
            /\ rows[i].views = MaxViews(rows)
            /\ \A j \in DOMAIN rows : rows[j].views = MaxViews(rows) => i <= j].title

Reported == ReportCalled /\ report # <<>>

\* C8: the engagement insight is selected by strict thresholds in order:
\* avg_engagement_rate > 3.0 gives the high-engagement statement, otherwise
\* > 1.0 the moderate one, otherwise the low one (exactly 3.0 gives
\* moderate, exactly 1.0 gives low), and exactly one of the three is
\* emitted.
C8_EngagementThresholds ==
    Reported =>
        LET avg == report[1].analysis.avg_engagement_rate
        IN  /\ avg.den > 0
            /\ Count(stdout, EngagementLines) = 1
            /\ Contains(stdout, "Great engagement") <=> avg.num > 3 * avg.den
            /\ Contains(stdout, "Good engagement")
                   <=> (avg.num <= 3 * avg.den /\ avg.num > avg.den)
            /\ Contains(stdout, "Low engagement") <=> avg.num <= avg.den

\* A report over two videos whose rates average exactly 3.0 selected the
\* moderate statement.
C8_Witness ==
    /\ Reported
    /\ Len(report[1].videos_df) = 2
    /\ report[1].analysis.avg_engagement_rate = [num |-> 3, den |-> 1]
    /\ Contains(stdout, "Good engagement")

ReportedViews == views(report[1].videos_df)
SumOfSquares(s) == SeqSum([i \in DOMAIN s |-> s[i] * s[i]])

\* cv < 50 with the sample standard deviation (divisor n - 1): with S the
\* sum and Q the sum of squares of n values, std^2 = (n Q - S^2) / (n (n - 1))
\* and mean = S / n, so std / mean * 100 < 50 exactly when
\* 4 n (n Q - S^2) < (n - 1) S^2.
SampleCvBelow50(s) ==
    4 * Len(s) * (Len(s) * SumOfSquares(s) - SeqSum(s) * SeqSum(s))
        < (Len(s) - 1) * SeqSum(s) * SeqSum(s)

SampleCvIs50(s) ==
    4 * Len(s) * (Len(s) * SumOfSquares(s) - SeqSum(s) * SeqSum(s))
        = (Len(s) - 1) * SeqSum(s) * SeqSum(s)

\* C9: for a table of at least two videos with a positive mean of views,
\* the consistency insight is the consistent-performance statement exactly
\* when the coefficient of variation (sample standard deviation over mean,
\* times 100) is strictly below 50, and the high-variability statement
\* otherwise (exactly 50 gives high variability).
C9_ConsistencyBySampleCv ==
    (Reported /\ Len(ReportedViews) >= 2 /\ SeqSum(ReportedViews) > 0) =>
        /\ Count(stdout, ConsistencyLines) = 1
        /\ Contains(stdout, "Consistent performance") <=> SampleCvBelow50(ReportedViews)
        /\ Contains(stdout, "High variability") <=> ~SampleCvBelow50(ReportedViews)

\* A report over views with a coefficient of variation of exactly 50 gave
\* the high-variability statement.
C9_Witness ==
    /\ Reported
    /\ Len(ReportedViews) >= 2
    /\ SeqSum(ReportedViews) > 0
    /\ SampleCvIs50(ReportedViews)
    /\ Contains(stdout, "High variability")

\* C10: when the coefficient of variation is undefined on a non-empty table
\* (exactly one video, or a mean of views of zero), the analysis
\* short-circuits before computing it: no consistency statement is selected
\* from an undefined (NaN) value.
C10_UndefinedCvShortCircuits ==
    (Reported /\ (Len(ReportedViews) = 1 \/ SeqSum(ReportedViews) = 0)) =>
        Count(stdout, ConsistencyLines) = 0

\* The insight statements among the printed lines, in the order printed.
PrintedInsights == SelectSeq(stdout, LAMBDA x : x \in InsightLines)

\* The video query of the last report succeeded with at least one row.
ReportedOnVideos ==
    /\ ReportCalled
    /\ QueriesSucceeded
    /\ JoinedVideoRows(call.channel_id) # {}

\* C11: for every non-empty video table generate_insights_report emits
\* exactly three insight statements, in the order engagement tier,
\* consistency, distribution comparison; the distribution statement is the
\* positive one exactly when high_performers > low_performers and the
\* opportunity-to-improve one otherwise (also when the counts are equal).
C11_ThreeInsightsInOrder ==
    ReportedOnVideos =>
        /\ Reported
        /\ Len(PrintedInsights) = 3
        /\ PrintedInsights[1] \in EngagementLines
        /\ PrintedInsights[2] \in ConsistencyLines
        /\ PrintedInsights[3] \in DistributionLines
        /\ LET df == report[1].videos_df
               high == Cardinality({ i \in DOMAIN df : 4 * df[i].views > Quartile4(df, 3) })
               low == Cardinality({ i \in DOMAIN df : 4 * df[i].views < Quartile4(df, 1) })
           IN  PrintedInsights[3] =
                   IF high > low THEN "More high-performing than low-performing"
                   ELSE "Opportunity to improve"

\* A report over three videos with as many high as low performers (one
\* each) gave the opportunity-to-improve statement.
C11_Witness ==
    /\ ReportedOnVideos
    /\ Reported
    /\ Len(report[1].videos_df) = 3
    /\ report[1].analysis.view_distribution.high_performers = 1
    /\ report[1].analysis.view_distribution.low_performers = 1
    /\ PrintedInsights[3] = "Opportunity to improve"

\* A report with more high than low performers gave the positive statement.
C11_WitnessPositive ==
    /\ ReportedOnVideos
    /\ Reported
    /\ PrintedInsights[3] = "More high-performing than low-performing"

\* The last call filtered on a channel identifier that no stored channel has.
UnknownChannel ==
    /\ Filtered(call.channel_id)
    /\ \A c \in channels : c.channel_id # call.channel_id

\* What the caller of the analysis sees: the returned value, whether an
\* exception reached it, the printed lines and the report shown.
AnalysisOutcome(r) == <<r.value, r.raised, r.stdout, r.report>>

\* The outcome of the same operation called with no filter on an empty
\* store: every query succeeds with zero rows.
EmptyStoreOutcome(op) ==
    IF op = "generate_insights_report"
    THEN AnalysisOutcome(generate_insights_report(NoQuery, NoQuery))
    ELSE AnalysisOutcome(run_complete_analysis(NoQuery, NoQuery, NoQuery))

\* C12: the analysis run with a channel identifier that matches no stored
\* channel gives the same outcome (the same no-data signal and the same
\* returned value) as the analysis run with no filter on an empty store.
C12_UnknownChannelAsEmptyStore ==
    (/\ ReportCalled
     /\ QueriesSucceeded
     /\ ~call.visual_failed
     /\ UnknownChannel) =>
        /\ <<returned, raised, stdout, report>> = EmptyStoreOutcome(call.op)
        /\ returned = NoneValue
        /\ Contains(stdout, "No channel data available")
        /\ Count(stdout, NoDataLines) = 1
        /\ Count(stdout, InsightLines) = 0

\* The analysis was run for an unknown channel on a store that holds
\* another channel and videos of it, and ended in the no-data signal.
C12_Witness ==
    /\ ReportCalled
    /\ QueriesSucceeded
    /\ ~call.visual_failed
    /\ UnknownChannel
    /\ channels # {}
    /\ video_analytics # <<>>
    /\ Contains(stdout, "No channel data available")

\* Twice the standard median of the views of a table that is in
\* non-increasing order of views: twice the middle value for an odd number
\* of rows, the sum of the two middle values for an even number.
TwiceMedian(df) ==
    LET n == Len(df)
    IN  IF n % 2 = 1 THEN 2 * df[(n + 1) \div 2].views
        ELSE df[n \div 2].views + df[n \div 2 + 1].views

C13_WitnessOdd ==
    /\ Analyzed
    /\ Len(returned.videos_df) = 3
    /\ returned.videos_df[1].views > returned.videos_df[2].views
    /\ returned.videos_df[2].views > returned.videos_df[3].views
    /\ returned.analysis.median_views = [num |-> returned.videos_df[2].views, den |-> 1]

\* The last call was an unfiltered report printed over a store that holds
\* more than one channel.
ReportedUnfiltered ==
    /\ Reported
    /\ ~Filtered(call.channel_id)
    /\ Cardinality(channels) > 1

\* The stored videos of the channel with the given name.
VideosOfChannel(name) ==
    { r \in JoinedVideoRows(NoChannel) : r.channel_name = name }

\* C20: when generate_insights_report is called with no channel filter on a
\* store holding more than one channel, the video metrics and insights
\* reported under the channel named in the report header are computed only
\* from the videos of that channel.
C20_HeaderChannelOwnsMetrics ==
    ReportedUnfiltered =>
        /\ \A i \in DOMAIN report[1].videos_df :
               report[1].videos_df[i].channel_name = report[1].channel_name
        /\ report[1].analysis.total_videos
               = Cardinality(VideosOfChannel(report[1].channel_name))
        /\ report[1].analysis.total_views
               = SeqSum(views(SelectSeq(report[1].videos_df,
                     LAMBDA r : r.channel_name = report[1].channel_name)))

\* The last call was one of the two query methods.
QueryCalled == call.op \in {"get_channel_overview", "analyze_video_performance"}

\* C14: every call of get_channel_overview and analyze_video_performance
\* releases the connection it opened before it returns, on the success path
\* and on the path where the query fails; after any sequence of calls no
\* connection opened by the engine remains open.
C14_ConnectionReleased == conn = 0

\* On the success path the connection is closed before the return.
C14_ClosedOnSuccess ==
    (QueryCalled /\ ~call.overview_failed /\ ~call.videos_failed) => conn = 0

\* The last call was a store method whose write the storage accepted.
Stored(op) == call.op = op /\ ~call.failed

ChannelsWithId(table, id) == { c \in table : c.channel_id = id }
VideosWithId(table, id) == { i \in DOMAIN table : table[i].video_id = id }

\* Each table holds at most one row per identifier.
OneRowPerIdentifier ==
    /\ \A c \in channels : Cardinality(ChannelsWithId(channels, c.channel_id)) = 1
    /\ \A i \in DOMAIN video_analytics :
           Cardinality(VideosWithId(video_analytics, video_analytics[i].video_id)) = 1

\* After a store call the identifier's row is the one given to the call.
HoldsStoredRow ==
    /\ Stored("store_channel_data") =>
           ChannelsWithId(channels, call.stored.channel_id) = {call.stored}
    /\ Stored("store_video_data") =>
           { video_analytics[i] : i \in VideosWithId(video_analytics, call.stored.video_id) }
               = {call.stored}

C15_WitnessTwice ==
    /\ Stored("store_video_data")
    /\ call.replaced = {call.stored}

\* C16: every video row written by store_video_data has engagement_rate
\* equal to (likes + comments) / views * 100 of the views, likes and comments
\* stored in that same row when views > 0, and equal to 0 when views = 0;
\* the stored rate is never negative and no division by zero occurs (the
\* rate is a finite number).
C16_StoredEngagementRate ==
    \A i \in DOMAIN video_analytics :
        LET r == video_analytics[i]
            rate == r.engagement_rate
        IN  /\ rate.den > 0
            /\ rate.num >= 0
            /\ r.views > 0 =>
                   rate.num * r.views = (r.likes + r.comments_count) * 100 * rate.den
            /\ r.views = 0 => rate.num = 0

\* The table holds a video with likes and no views, stored with rate 0, and
\* a video with views, stored with a positive rate.
C16_Witness ==
    /\ \E i \in DOMAIN video_analytics :
           /\ video_analytics[i].views = 0
           /\ video_analytics[i].likes > 0
           /\ video_analytics[i].engagement_rate = [num |-> 0, den |-> 1]
    /\ \E i \in DOMAIN video_analytics :
           /\ video_analytics[i].views = 100
           /\ video_analytics[i].engagement_rate = [num |-> 1, den |-> 1]

\* The last call was collect_channel_data and one of its fetches from the
\* platform API failed.
UpstreamFailed ==
    /\ call.op = "collect_channel_data"
    /\ \/ call.info_error \in {"HttpError", "Exception"}
       \/ call.videos_error \in {"HttpError", "Exception"}

\* C17: when an upstream API call fails during collect_channel_data (the
\* channel-info fetch or the video-list fetch), the collection step is
\* aborted and the run is not reported as successful: collect_channel_data
\* does not return True.
C17_UpstreamFailureNotSuccess ==
    UpstreamFailed =>
        /\ returned # Bool(TRUE)
        /\ ~Contains(stdout, "Completed data collection")

\* A failed channel-info fetch ends the run with False (or the exception).
C17_InfoFailureAborts ==
    (call.op = "collect_channel_data" /\ call.info_error \in {"HttpError", "Exception"}) =>
        /\ returned # Bool(TRUE)
        /\ ~Contains(stdout, "Completed data collection")

\* C18: after any sequence of collect_channel_data runs, runs in which a
\* storage write fails included, every row of video_analytics has a row in
\* channels with the same channel identifier.
C18_VideosHaveChannelRow ==
    \A i \in DOMAIN video_analytics :
        \E c \in channels : c.channel_id = video_analytics[i].channel_id

\* With every storage write accepted, each stored video has its channel row.
C18_HoldsWithoutWriteFailure ==
    [][ (/\ call'.op = "collect_channel_data"
         /\ ~call'.channel_write_failed
         /\ C18_VideosHaveChannelRow) => C18_VideosHaveChannelRow' ]_vars

\* run_complete_analysis has returned after its queries were taken one by
\* one.
PassDone == pass.pc = "done" /\ call.op = "run_complete_analysis"

\* The report's video query ran: the overview came back non-empty.
ReportVideosRead == get_channel_overview(pass.overview).value # EmptyDataFrame

\* The number of videos the overview rows count.
VideosCounted(overview) ==
    SeqSum([i \in DOMAIN overview |-> overview[i].videos_analyzed])

\* What the three queries read fits one store: the two video queries read
\* the same rows, and the overview counts as many videos as they read.
PassFitsOneStore ==
    /\ (ReportVideosRead /\ ~pass.videos.failed /\ ~pass.visual.failed)
           => Range(pass.videos.df) = Range(pass.visual.df)
    /\ (ReportVideosRead /\ ~pass.videos.failed)
           => VideosCounted(pass.overview.df) = Len(pass.videos.df)
    /\ (~pass.overview.failed /\ ~pass.visual.failed)
           => VideosCounted(pass.overview.df) = Len(pass.visual.df)

\* C19: within one run_complete_analysis call the channel overview, the
\* video analysis of the report and the video analysis of the
\* visualizations are computed from the same stored rows, also when a
\* collector's store_channel_data / store_video_data interleave with it.
C19_OnePassOneStore == PassDone => PassFitsOneStore

\* C19, for the passes no collector write fell into: then the three
\* queries do read one store.
C19_QuietPassOneStore == (PassDone /\ ~pass.written) => PassFitsOneStore

\* C19's case: a pass that read videos for the report and for the
\* visualizations while a collector wrote.
C19_Witness ==
    /\ PassDone
    /\ pass.written
    /\ ReportVideosRead
    /\ ~pass.videos.failed
    /\ ~pass.visual.failed
    /\ pass.visual.df # EmptyDataFrame
\* generate_insights_report returned after printing that the report was
\* saved.
AnnouncedSaved ==
    /\ call.op = "generate_insights_report"
    /\ Contains(stdout, "Report saved to")

\* C21: whenever generate_insights_report announces that the report was
\* saved to a file in the results directory, that report file exists in the
\* results directory when the call returns.
C21_SavedReportExists == AnnouncedSaved => report_file \in results_dir

\* The same for the chart of create_performance_visualizations, which
\* plt.savefig does write before the line is printed.
C21_SavedChartExists ==
    (/\ call.op = "create_performance_visualizations"
     /\ Contains(stdout, "Performance visualization saved"))
        => PerformancePng \in results_dir
====
